---- MODULE Spec2Model ----
(***************************************************************************)
(* Model of the network traffic analyzer core: the BGP UPDATE decoder      *)
(* (protocols/bgp.py), the OSPF LS Update decoder (protocols/ospf.py) and  *)
(* the topology graph (topology.py).                                       *)
(*                                                                         *)
(* A byte buffer is a sequence of integers 0..255; offsets are 0-based as  *)
(* in the source and translated to 1-based sequence indices by At/Slice.   *)
(* A Python str is a sequence of one-character strings, so that formatting *)
(* and parsing of addresses are computed and strings can be ordered.       *)
(***************************************************************************)
EXTENDS Integers, Sequences, FiniteSets, TLC

VARIABLES
    nodes,            \* NetworkTopology.nodes
    links,            \* NetworkTopology.links: (src, dst) -> LinkMetadata
    prefix_origins,   \* NetworkTopology.prefix_origins
    asserted,         \* history: (src, dst) -> the <<metric, protocol>> passed to add_link
    call,             \* history: the last call that changed the topology, and its outcome
    calls,            \* history: how many such calls were made
    query,            \* the last shortest_path query made since, and what it returned
    payload,          \* the byte buffer handed to a decoder
    args,             \* the arguments of the encoder that built the buffer, if any
    result,           \* what the decoder returned or raised
    pc                \* position of the decoder run: "args", "input" or "done"

vars == <<nodes, links, prefix_origins, asserted, call, calls, query, payload, args, result, pc>>
topoVars == <<nodes, links, prefix_origins, asserted, call>>
idleVars == <<topoVars, calls, query>>
decVars == <<payload, args, result, pc>>

(***************************************************************************)
(* Python values                                                           *)
(***************************************************************************)

\* Python's None (never equal to a str, which holds one-character strings).
None == <<"None">>

Min(a, b) == IF a < b THEN a ELSE b
Max(a, b) == IF a > b THEN a ELSE b

\* data[i] for 0 <= i < len(data); the callers test the IndexError case.
At(data, i) == data[i + 1]

\* data[a:b] for 0 <= a: the slice is cut at the end of the buffer.
Slice(data, a, b) == SubSeq(data, a + 1, Min(b, Len(data)))

\* n copies of b.
Rep(b, n) == [i \in 1..n |-> b]

\* bytes.ljust(width, b"\x00")
ljust(bytes, width) ==
    IF Len(bytes) >= width THEN bytes ELSE bytes \o Rep(0, width - Len(bytes))

\* struct.unpack("!H", b)[0] for a 2-byte b
U16(b) == b[1] * 256 + b[2]
\* struct.unpack("!I", b)[0] for a 4-byte b, as its two 16-bit halves <<hi, lo>>: the
\* integer hi * 65536 + lo, which does not fit the model checker's integers.
U32(b) == <<b[1] * 256 + b[2], b[3] * 256 + b[4]>>
\* struct.pack("!H", n), struct.pack("!I", n)
P16(n) == <<(n \div 256) % 256, n % 256>>
P32(n) == <<(n \div 16777216) % 256, (n \div 65536) % 256, (n \div 256) % 256, n % 256>>

Digit(d) ==
    CASE d = 0 -> "0" [] d = 1 -> "1" [] d = 2 -> "2" [] d = 3 -> "3" [] d = 4 -> "4"
      [] d = 5 -> "5" [] d = 6 -> "6" [] d = 7 -> "7" [] d = 8 -> "8" [] d = 9 -> "9"

\* ord(c) for the characters of an address or a prefix
Ord(c) ==
    CASE c = "." -> 46 [] c = "/" -> 47
      [] c = "0" -> 48 [] c = "1" -> 49 [] c = "2" -> 50 [] c = "3" -> 51 [] c = "4" -> 52
      [] c = "5" -> 53 [] c = "6" -> 54 [] c = "7" -> 55 [] c = "8" -> 56 [] c = "9" -> 57

\* str(n) for an int n >= 0
RECURSIVE Dec(_)
Dec(n) == IF n < 10 THEN <<Digit(n)>> ELSE Dec(n \div 10) \o <<Digit(n % 10)>>

\* int(s) for a str of decimal digits
RECURSIVE ParseDec(_)
ParseDec(s) ==
    IF Len(s) = 0 THEN 0
    ELSE ParseDec(SubSeq(s, 1, Len(s) - 1)) * 10 + (Ord(s[Len(s)]) - 48)

\* The index of the first occurrence of character c in s, 0 when there is none.
RECURSIVE Find(_, _, _)
Find(s, c, i) ==
    IF i > Len(s) THEN 0 ELSE IF s[i] = c THEN i ELSE Find(s, c, i + 1)

\* s.split(c)
RECURSIVE Split(_, _)
Split(s, c) ==
    LET i == Find(s, c, 1)
    IN  IF i = 0 THEN <<s>>
        ELSE <<SubSeq(s, 1, i - 1)>> \o Split(SubSeq(s, i + 1, Len(s)), c)

\* str(ipaddress.IPv4Address(b)) for a 4-byte b
FormatIPv4(b) ==
    Dec(b[1]) \o <<".">> \o Dec(b[2]) \o <<".">> \o Dec(b[3]) \o <<".">> \o Dec(b[4])

\* ipaddress.IPv4Address(s).packed for a dotted-quad str s
ParseIPv4(s) == LET p == Split(s, ".") IN [i \in 1..4 |-> ParseDec(p[i])]

\* s < t for two str (code point order, a proper prefix first)
RECURSIVE StrLess(_, _)
StrLess(s, t) ==
    IF Len(t) = 0 THEN FALSE
    ELSE IF Len(s) = 0 THEN TRUE
    ELSE IF s[1] # t[1] THEN Ord(s[1]) < Ord(t[1])
    ELSE StrLess(Tail(s), Tail(t))

(***************************************************************************)
(* protocols/bgp.py                                                        *)
(***************************************************************************)

\* What a decoder call produced: kind "ok", or the class of the exception raised.
BgpFail(kind, reason) ==
    [kind |-> kind, reason |-> reason, withdrawn_routes |-> <<>>,
     path_attributes |-> <<>>, nlri |-> <<>>,
     withdrawn_len |-> 0, withdrawn_end |-> 0, path_attr_len |-> 0, path_attr_end |-> 0]

\* f"{prefix}/{prefix_length}"
FormatPrefix(padded, prefix_length) == FormatIPv4(padded) \o <<"/">> \o Dec(prefix_length)

\* The while loop of _parse_nlri.
RECURSIVE parse_nlri_loop(_, _, _, _)
parse_nlri_loop(data, offset, end, prefixes) ==
    IF ~(offset < end) THEN [kind |-> "ok", reason |-> "", prefixes |-> prefixes, offset |-> offset]
    ELSE IF offset >= Len(data)
    THEN [kind |-> "IndexError", reason |-> "index out of range", prefixes |-> <<>>, offset |-> offset]
    ELSE LET prefix_length == At(data, offset)
             byte_length == (prefix_length + 7) \div 8
             prefix_bytes == Slice(data, offset + 1, offset + 1 + byte_length)
             padded == ljust(prefix_bytes, 4)
         IN  IF Len(padded) # 4
             THEN [kind |-> "AddressValueError", reason |-> "Address must be 4 bytes",
                   prefixes |-> <<>>, offset |-> offset]
             ELSE parse_nlri_loop(data, offset + 1 + byte_length, end,
                                  Append(prefixes, FormatPrefix(padded, prefix_length)))

parse_nlri(data, offset, length) == parse_nlri_loop(data, offset, offset + length, <<>>)

\* The AS_PATH branch of _decode_attribute_value: the for loop over one segment.
RECURSIVE as_path_values(_, _, _, _)
as_path_values(raw_value, offset, count, values) ==
    IF count = 0 THEN [kind |-> "ok", reason |-> "", values |-> values, offset |-> offset]
    ELSE IF Len(raw_value) - offset < 2
    THEN [kind |-> "BgpParserError", reason |-> "Malformed AS_PATH value", values |-> <<>>, offset |-> offset]
    ELSE as_path_values(raw_value, offset + 2, count - 1,
                        Append(values, U16(Slice(raw_value, offset, offset + 2))))

\* The AS_PATH branch of _decode_attribute_value: the while loop over the segments.
RECURSIVE as_path_segments(_, _, _)
as_path_segments(raw_value, offset, values) ==
    IF ~(offset < Len(raw_value)) THEN [kind |-> "ok", reason |-> "", value |-> values]
    ELSE IF Len(raw_value) - offset < 2
    THEN [kind |-> "BgpParserError", reason |-> "Malformed AS_PATH segment", value |-> <<>>]
    ELSE LET segment_type == At(raw_value, offset)
             segment_length == At(raw_value, offset + 1)
         IN  IF segment_type \notin {1, 2}
             THEN [kind |-> "BgpParserError", reason |-> "Unsupported AS_PATH segment type", value |-> <<>>]
             ELSE LET seg == as_path_values(raw_value, offset + 2, segment_length, values)
                  IN  IF seg.kind # "ok"
                      THEN [kind |-> seg.kind, reason |-> seg.reason, value |-> <<>>]
                      ELSE as_path_segments(raw_value, seg.offset, seg.values)

decode_attribute_value(type_code, raw_value) ==
    CASE type_code = 1 ->
           [kind |-> "ok", reason |-> "",
            value |-> IF Len(raw_value) > 0
                      THEN (CASE raw_value[1] = 0 -> <<"IGP">>
                              [] raw_value[1] = 1 -> <<"EGP">>
                              [] raw_value[1] = 2 -> <<"INCOMPLETE">>
                              [] OTHER -> <<"UNKNOWN">>)
                      ELSE <<"UNKNOWN">>]
      [] type_code = 2 -> as_path_segments(raw_value, 0, <<>>)
      [] type_code = 3 ->
           IF Len(raw_value) # 4
           THEN [kind |-> "BgpParserError", reason |-> "NEXT_HOP attribute must be 4 bytes", value |-> <<>>]
           ELSE [kind |-> "ok", reason |-> "", value |-> FormatIPv4(raw_value)]
      [] type_code = 4 ->
           IF Len(raw_value) # 4
           THEN [kind |-> "BgpParserError", reason |-> "MED attribute must be 4 bytes", value |-> <<>>]
           ELSE [kind |-> "ok", reason |-> "", value |-> U32(raw_value)]
      [] OTHER -> [kind |-> "ok", reason |-> "", value |-> raw_value]

PaFail(kind, reason, offset) ==
    [kind |-> kind, reason |-> reason, attributes |-> <<>>, offset |-> offset]

\* Mutant of ExtendedLength: the optional bit 0x80 is tested instead of 0x10.
ExtendedLength_OptionalBit(flags) == (flags \div 128) % 2 = 1

\* The extended-length test of _parse_path_attributes, flags & 0x10.
ExtendedLength(flags) == (flags \div 16) % 2 = 1

\* The while loop of _parse_path_attributes, and the check that follows it.
RECURSIVE parse_path_attributes_loop(_, _, _, _)
parse_path_attributes_loop(data, offset, end, attributes) ==
    IF ~(offset < end)
    THEN IF offset # end
         THEN PaFail("BgpParserError", "Path attribute length mismatch", offset)
         ELSE [kind |-> "ok", reason |-> "", attributes |-> attributes, offset |-> offset]
    ELSE IF end - offset < 2
    THEN PaFail("BgpParserError", "Truncated path attribute header", offset)
    ELSE IF offset + 1 >= Len(data)
    THEN PaFail("IndexError", "index out of range", offset)
    ELSE
    LET flags == At(data, offset)
        type_code == At(data, offset + 1)
        o2 == offset + 2
        ext == ExtendedLength(flags)
    IN  IF ext /\ end - o2 < 2
        THEN PaFail("BgpParserError", "Truncated extended length", o2)
        ELSE IF ext /\ Len(Slice(data, o2, o2 + 2)) # 2
        THEN PaFail("StructError", "unpack requires a buffer of 2 bytes", o2)
        ELSE IF ~ext /\ o2 >= Len(data)
        THEN PaFail("IndexError", "index out of range", o2)
        ELSE
        LET attr_len == IF ext THEN U16(Slice(data, o2, o2 + 2)) ELSE At(data, o2)
            o3 == IF ext THEN o2 + 2 ELSE o2 + 1
        IN  IF end - o3 < attr_len
            THEN PaFail("BgpParserError", "Truncated path attribute payload", o3)
            ELSE
            LET raw_value == Slice(data, o3, o3 + attr_len)
                dec == decode_attribute_value(type_code, raw_value)
            IN  IF dec.kind # "ok"
                THEN PaFail(dec.kind, dec.reason, o3 + attr_len)
                ELSE parse_path_attributes_loop(data, o3 + attr_len, end,
                        Append(attributes,
                               [flags |-> flags, type_code |-> type_code,
                                value |-> dec.value, raw_value |-> raw_value]))

parse_path_attributes(data, offset, length) ==
    parse_path_attributes_loop(data, offset, offset + length, <<>>)

\* Mutant of TrailingBytes: the final cursor check is dropped.
TrailingBytesIgnored(offset, len) == FALSE

\* The final check of parse_bgp_update, after the advertised NLRI.
TrailingBytes(offset, len) == offset # len

\* The body of parse_bgp_update from offset 19 on, the header being valid.
parse_bgp_body(data) ==
    LET withdrawn_len == U16(Slice(data, 19, 21))
        wd == parse_nlri(data, 21, withdrawn_len)
    IN  IF wd.kind # "ok" THEN BgpFail(wd.kind, wd.reason)
        ELSE IF Len(Slice(data, wd.offset, wd.offset + 2)) # 2
        THEN BgpFail("StructError", "unpack requires a buffer of 2 bytes")
        ELSE
        LET total_path_attr_len == U16(Slice(data, wd.offset, wd.offset + 2))
            pa == parse_path_attributes(data, wd.offset + 2, total_path_attr_len)
        IN  IF pa.kind # "ok" THEN BgpFail(pa.kind, pa.reason)
            ELSE
            LET ad == parse_nlri(data, pa.offset, Len(data) - pa.offset)
            IN  IF ad.kind # "ok" THEN BgpFail(ad.kind, ad.reason)
                ELSE IF TrailingBytes(ad.offset, Len(data))
                THEN BgpFail("BgpParserError", "Trailing bytes after NLRI parsing")
                ELSE [kind |-> "ok", reason |-> "",
                      withdrawn_routes |-> wd.prefixes,
                      path_attributes |-> pa.attributes,
                      nlri |-> ad.prefixes,
                      withdrawn_len |-> withdrawn_len,
                      withdrawn_end |-> wd.offset,
                      path_attr_len |-> total_path_attr_len,
                      path_attr_end |-> pa.offset]

BgpHeaderSize == 23
BgpMarkerSize == 16
BgpUpdateType == 2

\* Mutant of parse_bgp_update: the declared length is checked before the marker.
parse_bgp_update_LengthFirst(data) ==
    IF Len(data) < BgpHeaderSize
    THEN BgpFail("BgpParserError", "Payload too small for BGP header")
    ELSE IF U16(Slice(data, 16, 18)) # Len(data)
    THEN BgpFail("BgpParserError", "BGP length mismatch")
    ELSE IF Slice(data, 0, BgpMarkerSize) # Rep(255, BgpMarkerSize)
    THEN BgpFail("BgpParserError", "Invalid marker in BGP header")
    ELSE IF At(data, 18) # BgpUpdateType
    THEN BgpFail("BgpParserError", "Unsupported BGP message type")
    ELSE parse_bgp_body(data)

parse_bgp_update(data) ==
    IF Len(data) < BgpHeaderSize
    THEN BgpFail("BgpParserError", "Payload too small for BGP header")
    ELSE IF Slice(data, 0, BgpMarkerSize) # Rep(255, BgpMarkerSize)
    THEN BgpFail("BgpParserError", "Invalid marker in BGP header")
    ELSE IF U16(Slice(data, 16, 18)) # Len(data)
    THEN BgpFail("BgpParserError", "BGP length mismatch")
    ELSE IF At(data, 18) # BgpUpdateType
    THEN BgpFail("BgpParserError", "Unsupported BGP message type")
    ELSE parse_bgp_body(data)

\* BgpUpdate.get_attribute: the position of the first attribute of the type code,
\* 0 standing for None.
RECURSIVE get_attribute_from(_, _, _)
get_attribute_from(path_attributes, type_code, i) ==
    IF i > Len(path_attributes) THEN 0
    ELSE IF path_attributes[i].type_code = type_code THEN i
    ELSE get_attribute_from(path_attributes, type_code, i + 1)

\* Mutant of get_attribute: the position of the last attribute of the type code.
get_attribute_Last(path_attributes, type_code) ==
    LET found == {i \in 1..Len(path_attributes) : path_attributes[i].type_code = type_code}
    IN  IF found = {} THEN 0 ELSE CHOOSE i \in found : \A j \in found : j <= i

get_attribute(path_attributes, type_code) == get_attribute_from(path_attributes, type_code, 1)

\* BgpUpdate.next_hop and BgpUpdate.as_path
next_hop(update) ==
    LET attribute == get_attribute(update.path_attributes, 3)
    IN  IF attribute # 0 THEN update.path_attributes[attribute].value ELSE None

as_path(update) ==
    LET attribute == get_attribute(update.path_attributes, 2)
    IN  IF attribute # 0 THEN update.path_attributes[attribute].value ELSE <<>>

(***************************************************************************)
(* tests/conftest.py: the encoder of the BGP tests                         *)
(***************************************************************************)

build_bgp_update(prefix, nexthop) ==
    LET marker == Rep(255, 16)
        message_type == 2
        withdrawn_routes == <<0, 0>>
        origin_attr == <<64, 1, 1, 0>>
        as_path_value == <<2, 2>> \o P16(65001) \o P16(65002)
        as_path_attr == <<64, 2, Len(as_path_value)>> \o as_path_value
        next_hop_attr == <<64, 3, 4>> \o ParseIPv4(nexthop)
        med_attr == <<128, 4, 4>> \o P32(25)
        path_attributes == origin_attr \o as_path_attr \o next_hop_attr \o med_attr
        total_path_len == P16(Len(path_attributes))
        parts == Split(prefix, "/")
        prefix_length == ParseDec(parts[2])
        prefix_bytes == SubSeq(ParseIPv4(parts[1]), 1, (prefix_length + 7) \div 8)
        nlri == <<prefix_length>> \o prefix_bytes
        length == 19 + Len(withdrawn_routes) + 2 + Len(path_attributes) + Len(nlri)
        header == marker \o P16(length) \o <<message_type>>
    IN  header \o withdrawn_routes \o total_path_len \o path_attributes \o nlri

(***************************************************************************)
(* Inputs of the BGP decoder                                               *)
(***************************************************************************)

\* Longest body (the bytes after the 19-byte header) enumerated in full.
MaxTail == 6
\* Longest advertised-NLRI region enumerated in full.
MaxNlri == 6

TailBytes == {0, 1, 3, 16, 40}
NlriBytes == {0, 8, 40}
MutationBytes == {0, 1, 2, 16, 33, 255}
\* Longest attribute-and-NLRI region enumerated in full, after a declared length.
MaxAttr == 6
AttrBytes == {0, 1, 16}

SeqsUpTo(S, lo, hi) == UNION {[1..n -> S] : n \in lo..hi}

\* A message whose header is the given one; the declared length is the true
\* length plus delta.
BgpMessage(marker0, delta, type, tail) ==
    <<marker0>> \o Rep(255, 15) \o P16(19 + Len(tail) + delta) \o <<type>> \o tail

\* buf with the byte at 0-based position i set to b
SetByte(buf, i, b) == [buf EXCEPT ![i + 1] = b]

TestPrefix == <<"1", "0", ".", "0", ".", "0", ".", "0", "/", "2", "4">>
TestNextHop == <<"1", "9", "2", ".", "0", ".", "2", ".", "1">>
TestUpdate == build_bgp_update(TestPrefix, TestNextHop)

\* Valid header, every body up to MaxTail bytes.
BgpTailInputs == {BgpMessage(255, 0, 2, t) : t \in SeqsUpTo(TailBytes, 0, MaxTail)}
\* Every combination of a good or bad marker, declared length and type.
BgpHeaderInputs ==
    {BgpMessage(m, d, ty, t) : m \in {255, 0}, d \in {0, 1}, ty \in {2, 1},
                               t \in {<<>>, <<0, 0, 0>>, <<0, 0, 0, 0>>, <<0, 0, 0, 0, 0>>}}
    \cup {SubSeq(TestUpdate, 1, n) : n \in 0..Len(TestUpdate)}
\* The test message with one byte changed.
BgpMutationInputs ==
    {SetByte(TestUpdate, i, b) : i \in 0..(Len(TestUpdate) - 1), b \in MutationBytes}
\* No withdrawn routes, no attributes, every advertised region up to MaxNlri bytes.
BgpNlriInputs == {BgpMessage(255, 0, 2, <<0, 0, 0, 0>> \o n) : n \in SeqsUpTo(NlriBytes, 0, MaxNlri)}

\* No withdrawn routes, every declared attribute length up to MaxAttr + 1, every
\* following region up to MaxAttr bytes.
BgpAttrInputs ==
    {BgpMessage(255, 0, 2, <<0, 0>> \o P16(pl) \o a) :
        pl \in 0..(MaxAttr + 1), a \in SeqsUpTo(AttrBytes, 0, MaxAttr)}

BgpInputs ==
    BgpTailInputs \cup BgpHeaderInputs \cup BgpMutationInputs \cup BgpNlriInputs
    \cup BgpAttrInputs

(***************************************************************************)
(* The BGP decoder applied to an input                                     *)
(***************************************************************************)

EmptyLinks == [k \in {} |-> 0]
\* The value of call after a call other than ingest_packet, or after none.
NoCall == [op |-> "other", args |-> <<>>, outcome |-> "ok", tag |-> "", data |-> <<>>]

TopologyIdle ==
    /\ nodes = {} /\ links = EmptyLinks /\ prefix_origins = EmptyLinks
    /\ asserted = EmptyLinks /\ call = NoCall
    /\ calls = 0 /\ query = <<>>

InitBgp ==
    /\ TopologyIdle
    /\ payload \in BgpInputs
    /\ args = <<>>
    /\ result = BgpFail("none", "")
    /\ pc = "input"

ParseBgp ==
    /\ pc = "input"
    /\ result' = parse_bgp_update(payload)
    /\ pc' = "done"
    /\ UNCHANGED <<idleVars, payload, args>>

NextBgp == ParseBgp

SpecBgp == InitBgp /\ [][NextBgp]_vars

(***************************************************************************)
(* Claims about the BGP decoder (checked under SpecBgp)                    *)
(***************************************************************************)

BgpDone == pc = "done"
BgpDecoded == pc = "done" /\ result.kind = "ok"

\* C4: every call of parse_bgp_update returns a BgpUpdate or raises BgpParserError,
\* and never raises an exception of another class.
C4_OnlyBgpParserError == BgpDone => result.kind \in {"ok", "BgpParserError"}

\* C5: the header checks run in the order size, marker, declared length, message
\* type; the first one violated decides the reason, and a buffer violating any
\* of them is not decoded.
C5_HeaderChecksInOrder ==
    BgpDone =>
        IF Len(payload) < 23
        THEN result.kind = "BgpParserError" /\ result.reason = "Payload too small for BGP header"
        ELSE IF \E i \in 1..16 : payload[i] # 255
        THEN result.kind = "BgpParserError" /\ result.reason = "Invalid marker in BGP header"
        ELSE IF payload[17] * 256 + payload[18] # Len(payload)
        THEN result.kind = "BgpParserError" /\ result.reason = "BGP length mismatch"
        ELSE IF payload[19] # 2
        THEN result.kind = "BgpParserError" /\ result.reason = "Unsupported BGP message type"
        ELSE result.reason \notin {"Payload too small for BGP header", "Invalid marker in BGP header",
                                   "BGP length mismatch", "Unsupported BGP message type"}

\* A buffer of at least 23 bytes whose marker, declared length and type are all
\* wrong was rejected for its marker.
C5_Witness ==
    /\ BgpDone /\ Len(payload) >= 23
    /\ payload[1] # 255
    /\ payload[17] * 256 + payload[18] # Len(payload)
    /\ payload[19] # 2
    /\ result.reason = "Invalid marker in BGP header"

\* C6: in a decoded buffer the withdrawn prefixes consume exactly the declared
\* withdrawn-routes length, so the path-attribute length is read at offset
\* 21 + withdrawn-routes length.
C6_WithdrawnRegionExact ==
    BgpDecoded => result.withdrawn_end = 21 + result.withdrawn_len

\* The bytes a decoded attribute occupies: flags, type, a 1-byte length or, with
\* flag bit 0x10, a 2-byte length, and the value.
TlvSize(a) == 2 + (IF (a.flags \div 16) % 2 = 1 THEN 2 ELSE 1) + Len(a.raw_value)

\* The decoded attributes lie back to back in the buffer from pos to end, each
\* with its header and its whole value inside the region.
RECURSIVE TlvsFill(_, _, _, _)
TlvsFill(buf, pos, end, attrs) ==
    IF Len(attrs) = 0 THEN pos = end
    ELSE LET a == Head(attrs)
             ext == (a.flags \div 16) % 2 = 1
             hdr == IF ext THEN 4 ELSE 3
         IN  /\ pos + TlvSize(a) <= end
             /\ buf[pos + 1] = a.flags
             /\ buf[pos + 2] = a.type_code
             /\ Len(a.raw_value) = (IF ext THEN buf[pos + 3] * 256 + buf[pos + 4] ELSE buf[pos + 3])
             /\ a.raw_value = SubSeq(buf, pos + hdr + 1, pos + hdr + Len(a.raw_value))
             /\ TlvsFill(buf, pos + TlvSize(a), end, Tail(attrs))

\* n NLRI entries (a length byte and ceil(length / 8) address bytes each) lie
\* back to back in the buffer from pos and end exactly at end.
RECURSIVE NlriFill(_, _, _, _)
NlriFill(buf, pos, end, n) ==
    IF n = 0 THEN pos = end
    ELSE /\ pos < end
         /\ NlriFill(buf, pos + 1 + ((buf[pos + 1] + 7) \div 8), end, n - 1)

\* C7: a BgpUpdate is returned only if the path-attribute TLVs exactly fill the
\* declared region, the region lies inside the buffer, and the advertised NLRI
\* entries end exactly at the buffer length.
C7_AttributesAndNlriExact ==
    BgpDecoded =>
        LET start == result.withdrawn_end + 2
            end == start + result.path_attr_len
        IN  /\ payload[result.withdrawn_end + 1] * 256 + payload[result.withdrawn_end + 2]
                   = result.path_attr_len
            /\ end <= Len(payload)
            /\ TlvsFill(payload, start, end, result.path_attributes)
            /\ NlriFill(payload, end, Len(payload), Len(result.nlri))

\* A decoded buffer with an extended-length attribute of a non-empty value and an
\* advertised prefix.
C7_Witness ==
    /\ BgpDecoded
    /\ \E i \in 1..Len(result.path_attributes) :
          /\ (result.path_attributes[i].flags \div 16) % 2 = 1
          /\ Len(result.path_attributes[i].raw_value) >= 1
    /\ Len(result.nlri) >= 1

(***************************************************************************)
(* protocols/ospf.py                                                       *)
(***************************************************************************)

\* What parse_ospf_lsas produced: kind "ok" and the LSAs, or the class of the
\* exception raised. offsets holds the value of the cursor at the start of each
\* iteration of the LSA loop and after the last one that completed.
OspfOut(kind, reason, lsas, offsets) ==
    [kind |-> kind, reason |-> reason, lsas |-> lsas, offsets |-> offsets]

\* A 32-bit count as its 16-bit halves <<hi, lo>>: the test for zero and the
\* decrement that range(count) needs.
IsZero32(c) == c[1] = 0 /\ c[2] = 0
Dec32(c) == IF c[2] > 0 THEN <<c[1], c[2] - 1>> ELSE <<c[1] - 1, 65535>>

\* Mutant of link_metric: the metric is read one field early, at +8..+10.
link_metric_FieldEarly(lsa_body, link_offset) ==
    U16(Slice(lsa_body, link_offset + 8, link_offset + 10))

\* The metric of the link record at link_offset.
link_metric(lsa_body, link_offset) ==
    U16(Slice(lsa_body, link_offset + 10, link_offset + 12))

\* The loop over the link records of a Router-LSA body.
RECURSIVE parse_links(_, _, _, _)
parse_links(lsa_body, link_offset, remaining, links_) ==
    IF remaining = 0 THEN [kind |-> "ok", reason |-> "", links |-> links_]
    ELSE IF Len(lsa_body) - link_offset < 12
    THEN [kind |-> "OspfParserError", reason |-> "Truncated Router-LSA link", links |-> <<>>]
    ELSE LET link_id == FormatIPv4(Slice(lsa_body, link_offset, link_offset + 4))
             link_data == FormatIPv4(Slice(lsa_body, link_offset + 4, link_offset + 8))
             link_type == At(lsa_body, link_offset + 8)
             tos_count == At(lsa_body, link_offset + 9)
             metric == link_metric(lsa_body, link_offset)
         IN  parse_links(lsa_body, link_offset + 12 + (tos_count * 4), remaining - 1,
                         Append(links_, [link_id |-> link_id, link_data |-> link_data,
                                         link_type |-> link_type, metric |-> metric]))

\* Mutant of skips_lsa: no LSA is skipped.
skips_lsa_Never(ls_type) == FALSE

\* parse_ospf_lsas, the test that skips an LSA: only Router-LSAs are decoded.
skips_lsa(ls_type) == ls_type # 1

\* The loop over the LSAs of parse_ospf_lsas.
RECURSIVE parse_lsas(_, _, _, _, _)
parse_lsas(data, offset, remaining, lsas, offsets) ==
    IF IsZero32(remaining) THEN OspfOut("ok", "", lsas, Append(offsets, offset))
    ELSE IF Len(data) - offset < 20
    THEN OspfOut("OspfParserError", "Truncated LSA header", <<>>, Append(offsets, offset))
    ELSE
    LET lsa_header == Slice(data, offset, offset + 20)
        o1 == offset + 20
        ls_type == At(lsa_header, 3)
        link_state_id == FormatIPv4(Slice(lsa_header, 4, 8))
        advertising_router == FormatIPv4(Slice(lsa_header, 8, 12))
        lsa_length == U16(Slice(lsa_header, 18, 20))
    IN  IF Len(data) - o1 < lsa_length - 20
        THEN OspfOut("OspfParserError", "Truncated LSA body", <<>>, Append(offsets, offset))
        ELSE
        LET lsa_body == Slice(data, o1, o1 + (lsa_length - 20))
            o2 == o1 + (lsa_length - 20)
        IN  IF skips_lsa(ls_type)
            THEN parse_lsas(data, o2, Dec32(remaining), lsas, Append(offsets, offset))
            ELSE IF Len(lsa_body) < 4
            THEN OspfOut("OspfParserError", "Router-LSA body too small", <<>>,
                         Append(offsets, offset) \o <<o2>>)
            ELSE
            LET num_links == U16(Slice(lsa_body, 2, 4))
                lk == parse_links(lsa_body, 4, num_links, <<>>)
            IN  IF lk.kind # "ok"
                THEN OspfOut(lk.kind, lk.reason, <<>>, Append(offsets, offset) \o <<o2>>)
                ELSE parse_lsas(data, o2, Dec32(remaining),
                                Append(lsas, [advertising_router |-> advertising_router,
                                              link_state_id |-> link_state_id,
                                              links |-> lk.links]),
                                Append(offsets, offset))

OspfHeaderSize == 28
OspfVersion == 2
OspfLsUpdateType == 4

\* Mutant of parse_ospf_lsas: the packet type is checked before the version.
parse_ospf_lsas_TypeFirst(data) ==
    IF Len(data) < OspfHeaderSize
    THEN OspfOut("OspfParserError", "Payload too small for OSPF header", <<>>, <<>>)
    ELSE IF At(data, 1) # OspfLsUpdateType
    THEN OspfOut("OspfParserError", "Unsupported OSPF packet type", <<>>, <<>>)
    ELSE IF At(data, 0) # OspfVersion
    THEN OspfOut("OspfParserError", "Unsupported OSPF version", <<>>, <<>>)
    ELSE IF U16(Slice(data, 2, 4)) # Len(data)
    THEN OspfOut("OspfParserError", "OSPF length mismatch", <<>>, <<>>)
    ELSE parse_lsas(data, 28, U32(Slice(data, 24, 28)), <<>>, <<>>)

parse_ospf_lsas(data) ==
    IF Len(data) < OspfHeaderSize
    THEN OspfOut("OspfParserError", "Payload too small for OSPF header", <<>>, <<>>)
    ELSE IF At(data, 0) # OspfVersion
    THEN OspfOut("OspfParserError", "Unsupported OSPF version", <<>>, <<>>)
    ELSE IF At(data, 1) # OspfLsUpdateType
    THEN OspfOut("OspfParserError", "Unsupported OSPF packet type", <<>>, <<>>)
    ELSE IF U16(Slice(data, 2, 4)) # Len(data)
    THEN OspfOut("OspfParserError", "OSPF length mismatch", <<>>, <<>>)
    ELSE parse_lsas(data, 28, U32(Slice(data, 24, 28)), <<>>, <<>>)

(***************************************************************************)
(* tests/conftest.py: the encoder of the OSPF tests                        *)
(***************************************************************************)

build_ospf_router_lsa(advertising_router, neighbor, metric) ==
    LET version == 2
        packet_type == 4
        lsa_body == <<0, 0>> \o P16(1) \o ParseIPv4(neighbor) \o <<255, 255, 255, 0>>
                    \o <<1, 0>> \o P16(metric)
        lsa_length == 20 + Len(lsa_body)
        lsa_header == <<0, 1, 0, 1>> \o ParseIPv4(neighbor) \o ParseIPv4(advertising_router)
                      \o <<128, 0, 0, 1>> \o P16(0) \o P16(lsa_length)
        ls_update_body == P32(1) \o lsa_header \o lsa_body
        packet_length == 24 + Len(ls_update_body)
        ospf_header == <<version, packet_type>> \o P16(packet_length)
                       \o ParseIPv4(advertising_router) \o <<0, 0, 0, 0>>
                       \o P16(0) \o P16(0) \o Rep(0, 8)
    IN  ospf_header \o ls_update_body

(***************************************************************************)
(* Inputs of the OSPF decoder and the decoder applied to an input          *)
(***************************************************************************)

TestNeighbor == <<"1", "9", "2", ".", "0", ".", "2", ".", "2">>
TestLsUpdate == build_ospf_router_lsa(TestNextHop, TestNeighbor, 10)

\* The header of buf replaced: version, packet type, and the true length plus delta.
OspfPacket(version, type, delta, buf) ==
    <<version, type>> \o P16(Len(buf) + delta) \o SubSeq(buf, 5, Len(buf))

\* Every combination of a good or bad version, packet type and declared length,
\* on the test packet and on the test packet cut short.
OspfHeaderInputs ==
    {OspfPacket(v, ty, d, SubSeq(TestLsUpdate, 1, n)) :
        v \in {2, 1, 3}, ty \in {4, 1, 5}, d \in {0, 1}, n \in {4, 27, 28, 47, 48, Len(TestLsUpdate)}}
\* The test packet with one byte changed.
OspfMutationInputs ==
    {SetByte(TestLsUpdate, i, b) : i \in 0..(Len(TestLsUpdate) - 1), b \in MutationBytes}

\* LSAs in one LS Update.
MaxLsas == 3

\* An LSA: the 20-byte header with LS type ls_type, the router 10.0.0.<id> as
\* link-state id and advertising router, a declared length of the true length
\* plus delta, and the body.
LsaBytes(ls_type, id, delta, body) ==
    <<0, 1, 0, ls_type>> \o <<10, 0, 0, id>> \o <<10, 0, 0, id>> \o <<128, 0, 0, 1>>
    \o P16(0) \o P16(20 + Len(body) + delta) \o body

\* A link record to 10.0.0.<id> of type 1 with TOS count tos and metric 7.
LinkBytes(id, tos) == <<10, 0, 0, id>> \o <<255, 255, 255, 0>> \o <<1, tos>> \o P16(7)

\* The body of a Router-LSA that declares n links.
RouterBody(n, records) == <<0, 0>> \o P16(n) \o records

\* The LSAs an LS Update is made of: Router-LSAs whose links fit, with and without
\* padding and TOS bytes; Router-LSAs whose links or TOS bytes do not fit; LSAs of
\* other types; and LSAs that declare less than the 20 bytes of their header.
LsaPool ==
    {LsaBytes(1, 1, 0, RouterBody(1, LinkBytes(2, 0))),
     LsaBytes(1, 2, 0, RouterBody(0, Rep(0, 12))),
     LsaBytes(1, 3, 0, RouterBody(1, LinkBytes(1, 1) \o Rep(0, 4))),
     LsaBytes(1, 4, 0, RouterBody(1, LinkBytes(1, 1))),
     LsaBytes(1, 5, 0, RouterBody(2, LinkBytes(1, 1) \o LinkBytes(2, 0))),
     LsaBytes(1, 6, 0, RouterBody(2, LinkBytes(1, 0))),
     LsaBytes(5, 7, 0, Rep(0, 4)),
     LsaBytes(2, 8, 0, <<>>),
     LsaBytes(5, 9, -20, <<>>),
     LsaBytes(5, 10, -10, <<>>),
     LsaBytes(1, 11, -4, <<>>)}

RECURSIVE Concat(_)
Concat(seqs) == IF Len(seqs) = 0 THEN <<>> ELSE Head(seqs) \o Concat(Tail(seqs))

\* The LS Update of router 10.0.0.1 that declares count LSAs and carries lsas.
LsUpdate(count, lsas) ==
    <<2, 4>> \o P16(28 + Len(lsas)) \o <<10, 0, 0, 1>> \o <<0, 0, 0, 0>>
    \o P16(0) \o P16(0) \o Rep(0, 8) \o P32(count) \o lsas

\* LS Updates of up to MaxLsas LSAs of the pool, declaring as many as they carry.
\* and LS Updates of one LSA that declare MaxLsas of them.
OspfLsaInputs ==
    {LsUpdate(Len(q), Concat(q)) : q \in SeqsUpTo(LsaPool, 1, MaxLsas)}
    \cup {LsUpdate(MaxLsas, l) : l \in LsaPool}

OspfInputs == OspfHeaderInputs \cup OspfMutationInputs \cup OspfLsaInputs

InitOspf ==
    /\ TopologyIdle
    /\ payload \in OspfInputs
    /\ args = <<>>
    /\ result = OspfOut("none", "", <<>>, <<>>)
    /\ pc = "input"

ParseOspf ==
    /\ pc = "input"
    /\ result' = parse_ospf_lsas(payload)
    /\ pc' = "done"
    /\ UNCHANGED <<idleVars, payload, args>>

NextOspf == ParseOspf

SpecOspf == InitOspf /\ [][NextOspf]_vars

(***************************************************************************)
(* Claims about the OSPF decoder (checked under SpecOspf)                  *)
(***************************************************************************)

OspfDone == pc = "done"

\* C9: a buffer is decoded only if it has at least 28 bytes, version 2, packet
\* type 4 and a declared length equal to its length; the checks run in the order
\* size, version, packet type, length and the first one violated decides the
\* reason; a wrong packet type in an otherwise valid buffer is reported as such.
C9_OspfHeaderChecksInOrder ==
    OspfDone =>
        IF Len(payload) < 28
        THEN result.kind = "OspfParserError" /\ result.reason = "Payload too small for OSPF header"
        ELSE IF payload[1] # 2
        THEN result.kind = "OspfParserError" /\ result.reason = "Unsupported OSPF version"
        ELSE IF payload[2] # 4
        THEN result.kind = "OspfParserError" /\ result.reason = "Unsupported OSPF packet type"
        ELSE IF payload[3] * 256 + payload[4] # Len(payload)
        THEN result.kind = "OspfParserError" /\ result.reason = "OSPF length mismatch"
        ELSE result.reason \notin {"Payload too small for OSPF header", "Unsupported OSPF version",
                                   "Unsupported OSPF packet type", "OSPF length mismatch"}

\* A buffer of at least 28 bytes of version 2 whose packet type and declared
\* length are both wrong was rejected for its packet type.
C9_Witness ==
    /\ OspfDone /\ Len(payload) >= 28
    /\ payload[1] = 2 /\ payload[2] # 4 /\ payload[3] * 256 + payload[4] # Len(payload)
    /\ result.kind = "OspfParserError"
    /\ result.reason = "Unsupported OSPF packet type"

(***************************************************************************)
(* Round trips: the test encoders followed by the decoders                 *)
(***************************************************************************)

OctetSamples == {0, 1, 255}
MetricSamples == {0, 1, 10, 255, 256, 65535}

\* Addresses given to the encoders, as the dotted-quad strings the tests write.
RTAddrs ==
    {FormatIPv4(b) : b \in {<<192, 0, 2, 1>>, <<0, 0, 0, 0>>, <<255, 255, 255, 255>>, <<10, 0, 0, 1>>}}

\* The prefixes a.b.c.d/n, 0 <= n <= 32, whose bytes beyond ceil(n / 8) are zero.
RTPrefixes ==
    UNION {{FormatPrefix(b, n) : b \in {x \in [1..4 -> OctetSamples] :
                                           \A i \in 1..4 : i > (n + 7) \div 8 => x[i] = 0}} :
           n \in 0..32}

InitBgpRT ==
    /\ TopologyIdle
    /\ args \in [prefix : RTPrefixes, next_hop : RTAddrs]
    /\ payload = <<>>
    /\ result = BgpFail("none", "")
    /\ pc = "args"

EncodeBgp ==
    /\ pc = "args"
    /\ payload' = build_bgp_update(args.prefix, args.next_hop)
    /\ pc' = "input"
    /\ UNCHANGED <<idleVars, args, result>>

NextBgpRT == EncodeBgp \/ ParseBgp

SpecBgpRT == InitBgpRT /\ [][NextBgpRT]_vars

\* C8: decoding the UPDATE the test encoder builds for next hop H and prefix P
\* yields next_hop = H, the AS path 65001, 65002 in order, and nlri = [P].
C8_BgpRoundTrip ==
    pc = "done" =>
        /\ result.kind = "ok"
        /\ next_hop(result) = args.next_hop
        /\ as_path(result) = <<65001, 65002>>
        /\ result.nlri = <<args.prefix>>

\* The round trip of a prefix whose last address byte is partly used (/17).
C8_Witness ==
    /\ pc = "done"
    /\ args.prefix = <<"2", "5", "5", ".", "1", ".", "2", "5", "5", ".", "0", "/", "1", "7">>
    /\ result.nlri = <<args.prefix>>

InitOspfRT ==
    /\ TopologyIdle
    /\ args \in [advertising_router : RTAddrs, neighbor : RTAddrs, metric : MetricSamples]
    /\ payload = <<>>
    /\ result = OspfOut("none", "", <<>>, <<>>)
    /\ pc = "args"

EncodeOspf ==
    /\ pc = "args"
    /\ payload' = build_ospf_router_lsa(args.advertising_router, args.neighbor, args.metric)
    /\ pc' = "input"
    /\ UNCHANGED <<idleVars, args, result>>

NextOspfRT == EncodeOspf \/ ParseOspf

SpecOspfRT == InitOspfRT /\ [][NextOspfRT]_vars

\* C10: decoding the LS Update the test encoder builds for advertising router R,
\* neighbour N and metric M yields exactly one LSA with advertising_router = R
\* and exactly one link, with link_id = N and metric = M.
C10_OspfRoundTrip ==
    pc = "done" =>
        /\ result.kind = "ok"
        /\ Len(result.lsas) = 1
        /\ result.lsas[1].advertising_router = args.advertising_router
        /\ Len(result.lsas[1].links) = 1
        /\ result.lsas[1].links[1].link_id = args.neighbor
        /\ result.lsas[1].links[1].metric = args.metric

\* The round trip of the largest metric.
C10_Witness ==
    /\ pc = "done"
    /\ args.metric = 65535
    /\ args.advertising_router # args.neighbor
    /\ Len(result.lsas) = 1

(***************************************************************************)
(* topology.py                                                             *)
(*                                                                         *)
(* The operations are written over a record T of the fields of a           *)
(* NetworkTopology (nodes, links, prefix_origins) and of the history       *)
(* asserted, so that one operation can call another.                       *)
(***************************************************************************)

\* LinkMetadata(): what the defaultdict creates for a pair read for the first time.
DefaultLinkMetadata == [metric |-> 1, protocols |-> {}]

\* f with key k set to v, k added to the domain when it is new.
Put(f, k, v) == [x \in DOMAIN f \cup {k} |-> IF x = k THEN v ELSE f[x]]

\* Mutant of merged_metric: the stored metric is overwritten by the new one.
merged_metric_Overwrite(metadata, metric) == metric

\* add_link, the metric assignment.
merged_metric(metadata, metric) ==
    IF metadata.protocols # {} THEN Min(metadata.metric, metric) ELSE metric

add_link(T, src, dst, metric, protocol) ==
    LET k == <<src, dst>>
        metadata == IF k \in DOMAIN T.links THEN T.links[k] ELSE DefaultLinkMetadata
        seen == IF k \in DOMAIN T.asserted THEN T.asserted[k] ELSE {}
    IN  [nodes |-> T.nodes \cup {src, dst},
         links |-> Put(T.links, k, [metric |-> merged_metric(metadata, metric),
                                    protocols |-> metadata.protocols \cup {protocol}]),
         prefix_origins |-> T.prefix_origins,
         asserted |-> Put(T.asserted, k, seen \cup {<<metric, protocol>>})]

add_prefix_origin(T, prefix, nexthop) ==
    IF nexthop # None
    THEN [T EXCEPT !.prefix_origins = Put(T.prefix_origins, prefix, nexthop)]
    ELSE T

\* apply_bgp_update, the loop over update.nlri.
RECURSIVE add_prefix_origins(_, _, _)
add_prefix_origins(T, prefixes, nexthop) ==
    IF Len(prefixes) = 0 THEN T
    ELSE add_prefix_origins(add_prefix_origin(T, Head(prefixes), nexthop), Tail(prefixes), nexthop)

\* Mutant of apply_bgp_update: the withdrawn prefixes lose their recorded origin.
apply_bgp_update_Withdraws(T, source_router, update) ==
    LET T1 == [T EXCEPT !.nodes = T.nodes \cup {source_router}]
        nh == next_hop(update)
        T2 == IF nh # None /\ Len(nh) > 0
              THEN add_link(T1, source_router, nh, 1, "BGP")
              ELSE T1
        gone == {update.withdrawn_routes[i] : i \in 1..Len(update.withdrawn_routes)}
        T3 == [T2 EXCEPT !.prefix_origins =
                  [x \in DOMAIN T2.prefix_origins \ gone |-> T2.prefix_origins[x]]]
    IN  add_prefix_origins(T3, update.nlri, nh)

apply_bgp_update(T, source_router, update) ==
    LET T1 == [T EXCEPT !.nodes = T.nodes \cup {source_router}]
        nh == next_hop(update)
        T2 == IF nh # None /\ Len(nh) > 0
              THEN add_link(T1, source_router, nh, 1, "BGP")
              ELSE T1
    IN  add_prefix_origins(T2, update.nlri, nh)

\* apply_ospf_lsa, the loop over lsa.links.
RECURSIVE add_ospf_links(_, _, _)
add_ospf_links(T, router, lsa_links) ==
    IF Len(lsa_links) = 0 THEN T
    ELSE LET link == Head(lsa_links)
             neighbor == link.link_id
             cost == Max(1, link.metric)
         IN  add_ospf_links(add_link(T, router, neighbor, cost, "OSPF"), router, Tail(lsa_links))

\* Mutant of apply_ospf_lsa: the advertising router becomes a node only through
\* its links.
apply_ospf_lsa_LinksOnly(T, lsa) == add_ospf_links(T, lsa.advertising_router, lsa.links)

apply_ospf_lsa(T, lsa) ==
    add_ospf_links([T EXCEPT !.nodes = T.nodes \cup {lsa.advertising_router}],
                   lsa.advertising_router, lsa.links)

\* ingest_packet, the loop over the decoded LSAs.
RECURSIVE apply_ospf_lsas(_, _)
apply_ospf_lsas(T, lsas) ==
    IF Len(lsas) = 0 THEN T ELSE apply_ospf_lsas(apply_ospf_lsa(T, Head(lsas)), Tail(lsas))

\* ingest_packet, the decoding of the payload: what the decoder named by the
\* packet's tag returned or raised; nothing is decoded for another tag.
decode_payload(packet) ==
    IF packet.payload_protocol = "BGP" THEN parse_bgp_update(packet.payload)
    ELSE IF packet.payload_protocol = "OSPF" THEN parse_ospf_lsas(packet.payload)
    ELSE [kind |-> "ok"]

\* Mutant of ingest_decoded: the packet's source is recorded as a node whatever
\* the payload holds.
ingest_decoded_NodeFirst(T, packet, decoded) ==
    LET T0 == [T EXCEPT !.nodes = T.nodes \cup {packet.src_ip}]
    IN  IF decoded.kind # "ok" THEN [T |-> T0, outcome |-> decoded.kind]
        ELSE IF packet.payload_protocol = "BGP"
        THEN [T |-> apply_bgp_update(T0, packet.src_ip, decoded), outcome |-> "ok"]
        ELSE IF packet.payload_protocol = "OSPF"
        THEN [T |-> apply_ospf_lsas(T0, decoded.lsas), outcome |-> "ok"]
        ELSE [T |-> T0, outcome |-> "ok"]

\* ingest_packet once the payload went through its decoder: the topology after
\* the call and "ok", or the topology as the exception left it and the class of
\* the exception.
ingest_decoded(T, packet, decoded) ==
    IF decoded.kind # "ok" THEN [T |-> T, outcome |-> decoded.kind]
    ELSE IF packet.payload_protocol = "BGP"
    THEN [T |-> apply_bgp_update(T, packet.src_ip, decoded), outcome |-> "ok"]
    ELSE IF packet.payload_protocol = "OSPF"
    THEN [T |-> apply_ospf_lsas(T, decoded.lsas), outcome |-> "ok"]
    ELSE [T |-> T, outcome |-> "ok"]

ingest_packet(T, packet) == ingest_decoded(T, packet, decode_payload(packet))

\* ingest: ingest_packet on each packet in turn; an exception ends the loop and
\* leaves what the packets before it did. Each packet comes with what its decoder
\* returns or raises.
RECURSIVE ingest(_, _)
ingest(T, packets) ==
    IF Len(packets) = 0 THEN [T |-> T, outcome |-> "ok"]
    ELSE LET r == ingest_decoded(T, Head(packets).packet, Head(packets).decoded)
         IN  IF r.outcome # "ok" THEN r ELSE ingest(r.T, Tail(packets))

\* a < b for two lists of str
RECURSIVE PathLess(_, _)
PathLess(a, b) ==
    IF Len(b) = 0 THEN FALSE
    ELSE IF Len(a) = 0 THEN TRUE
    ELSE IF a[1] # b[1] THEN StrLess(a[1], b[1])
    ELSE PathLess(Tail(a), Tail(b))

\* Mutant of EntryLess: heap entries are compared by cost alone.
EntryLess_CostOnly(a, b) == a.cost < b.cost

\* a < b for two heap entries (cost, node, path)
EntryLess(a, b) ==
    IF a.cost # b.cost THEN a.cost < b.cost
    ELSE IF a.node # b.node THEN StrLess(a.node, b.node)
    ELSE PathLess(a.path, b.path)

\* heapq.heappop: the least entry. The heap is modelled as the set of its entries.
heappop(queue) == CHOOSE e \in queue : \A o \in queue \ {e} : EntryLess(e, o)

\* _neighbours_with_metadata
neighbours_with_metadata(T, node) == {k \in DOMAIN T.links : k[1] = node}

\* Mutant of improves: a node already given a tentative cost is never pushed again.
improves_FirstOnly(visited, neighbour, new_cost) == neighbour \notin DOMAIN visited

\* shortest_path, the test that pushes a neighbour.
improves(visited, neighbour, new_cost) ==
    neighbour \notin DOMAIN visited \/ new_cost < visited[neighbour]

\* shortest_path, the while loop. The links leaving a node have distinct
\* destinations, so the pushes of one iteration do not depend on their order.
RECURSIVE shortest_path_loop(_, _, _, _)
shortest_path_loop(T, dst, queue, visited) ==
    IF queue = {} THEN None
    ELSE LET e == heappop(queue)
         IN  IF e.node = dst THEN e.path
             ELSE LET better == {k \in neighbours_with_metadata(T, e.node) :
                                    improves(visited, k[2], e.cost + T.links[k].metric)}
                      pushed == {[cost |-> e.cost + T.links[k].metric, node |-> k[2],
                                  path |-> Append(e.path, k[2])] : k \in better}
                      visited2 == [n \in DOMAIN visited \cup {k[2] : k \in better} |->
                                      IF <<e.node, n>> \in better
                                      THEN e.cost + T.links[<<e.node, n>>].metric
                                      ELSE visited[n]]
                  IN  shortest_path_loop(T, dst, (queue \ {e}) \cup pushed, visited2)

shortest_path(T, src, dst) ==
    IF src \notin T.nodes \/ dst \notin T.nodes THEN None
    ELSE shortest_path_loop(T, dst, {[cost |-> 0, node |-> src, path |-> <<src>>]},
                            [n \in {src} |-> 0])

describe_prefix(T, prefix) ==
    IF prefix \in DOMAIN T.prefix_origins THEN T.prefix_origins[prefix] ELSE None

(***************************************************************************)
(* The topology driven by calls                                            *)
(***************************************************************************)

\* Calls that change the topology in one behaviour.
MaxCalls == 2

A1 == <<"1", "0", ".", "0", ".", "0", ".", "1">>
A2 == <<"1", "0", ".", "0", ".", "0", ".", "2">>
A10 == <<"1", "0", ".", "0", ".", "0", ".", "1", "0">>
TopoAddrs == {A1, A2, A10}
\* The routers that speak: sources of links, of updates and of packets.
TopoRouters == {A1, A2}
TopoMetrics == {2, 5}
P24 == <<"1", "0", ".", "1", ".", "0", ".", "0", "/", "2", "4">>
P8 == <<"1", "0", ".", "0", ".", "0", ".", "0", "/", "8">>

\* The test packet for two LSAs: the count of x set to n and the LSA of y appended.
OspfJoin(x, y, n) ==
    LET body == SubSeq(x, 29, Len(x)) \o SubSeq(y, 29, Len(y))
    IN  SubSeq(x, 1, 2) \o P16(28 + Len(body)) \o SubSeq(x, 5, 24) \o P32(n) \o body

\* A BGP UPDATE for P24 with two NEXT_HOP attributes, A2 and then A10.
TwoNextHops ==
    BgpMessage(255, 0, 2, <<0, 0>> \o P16(14) \o <<64, 3, 4>> \o ParseIPv4(A2)
                          \o <<64, 3, 4>> \o ParseIPv4(A10) \o <<24, 10, 1, 0>>)

\* BGP payloads that decode: the test message, a message with a withdrawn
\* prefix, no attribute and one advertised prefix, and the message with two
\* next hops.
GoodBgpPayloads ==
    {build_bgp_update(P24, A2), build_bgp_update(P24, A10), build_bgp_update(P8, A2),
     BgpMessage(255, 0, 2, <<0, 2, 8, 10, 0, 0, 8, 10>>), TwoNextHops}
\* BGP payloads that do not: a bad marker, and a withdrawn region that ends
\* where the attribute length should be.
BadBgpPayloads ==
    {SetByte(build_bgp_update(P24, A2), 0, 0), BgpMessage(255, 0, 2, <<0, 1, 0, 0>>)}

\* OSPF payloads that decode: the test packet, and packets of two LSAs.
GoodOspfPayloads ==
    {build_ospf_router_lsa(r, n, m) : r \in TopoRouters, n \in TopoAddrs, m \in {0, 5}}
    \cup {OspfJoin(build_ospf_router_lsa(A1, A2, 5), build_ospf_router_lsa(A1, A10, 1), 2),
          OspfJoin(build_ospf_router_lsa(A2, A1, 2), build_ospf_router_lsa(A10, A2, 2), 2)}
\* OSPF payloads that do not: a wrong packet type, a second LSA that is missing,
\* and a second LSA whose link count is too large, each after a first LSA that
\* is well formed.
BadOspfPayloads ==
    {SetByte(build_ospf_router_lsa(A1, A2, 5), 1, 1),
     OspfJoin(build_ospf_router_lsa(A1, A2, 5), <<>>, 2),
     SetByte(OspfJoin(build_ospf_router_lsa(A1, A2, 5), build_ospf_router_lsa(A1, A10, 1), 2), 87, 9)}

Packets ==
    [src_ip : TopoRouters, payload_protocol : {"BGP"}, payload : GoodBgpPayloads \cup BadBgpPayloads]
    \cup [src_ip : {A10}, payload_protocol : {"OSPF"}, payload : GoodOspfPayloads \cup BadOspfPayloads]
    \cup [src_ip : {A10}, payload_protocol : {"ICMP", "None"}, payload : {TestUpdate, TestLsUpdate}]
    \cup [src_ip : {A10}, payload_protocol : {"BGP"}, payload : {TestLsUpdate}]
    \cup [src_ip : {A10}, payload_protocol : {"OSPF"}, payload : {TestUpdate}]

\* Each packet with what its payload decodes to.
DecodedPackets == {[packet |-> p, decoded |-> decode_payload(p)] : p \in Packets}

\* The lists of packets handed to ingest: two packets, each one that decodes or
\* one that does not.
IngestBatches ==
    LET some == {d \in DecodedPackets :
                    /\ d.packet.src_ip \in {A1, A10}
                    /\ d.packet.payload \in {build_bgp_update(P8, A2),
                                             BgpMessage(255, 0, 2, <<0, 2, 8, 10, 0, 0, 8, 10>>),
                                             BgpMessage(255, 0, 2, <<0, 1, 0, 0>>),
                                             build_ospf_router_lsa(A2, A10, 5),
                                             OspfJoin(build_ospf_router_lsa(A1, A2, 5), <<>>, 2)}
                    /\ d.packet.payload_protocol \in {"BGP", "OSPF"}}
    IN  {<<a, b>> : a \in some, b \in some}

\* Decoded values handed to apply_bgp_update and apply_ospf_lsa directly.
BgpUpdates == {parse_bgp_update(b) : b \in GoodBgpPayloads}
OspfLsas ==
    UNION {{parse_ospf_lsas(b).lsas[i] : i \in 1..Len(parse_ospf_lsas(b).lsas)} :
           b \in GoodOspfPayloads}
    \cup {[advertising_router |-> A1, link_state_id |-> A1,
           links |-> <<[link_id |-> A2, link_data |-> A1, link_type |-> 1, metric |-> 5],
                       [link_id |-> A10, link_data |-> A1, link_type |-> 1, metric |-> 1]>>],
          [advertising_router |-> A10, link_state_id |-> A10, links |-> <<>>]}

Topology == [nodes |-> nodes, links |-> links, prefix_origins |-> prefix_origins,
             asserted |-> asserted]

\* A call of op with its arguments; tag and data are the protocol and payload of
\* the packet given to ingest_packet.
Called(op, call_args, tag, data, outcome) ==
    [op |-> op, args |-> call_args, tag |-> tag, data |-> data, outcome |-> outcome]
NoQuery == [src |-> None, dst |-> None, path |-> None]

\* The topology becomes T.
Becomes(T) ==
    /\ nodes' = T.nodes
    /\ links' = T.links
    /\ prefix_origins' = T.prefix_origins
    /\ asserted' = T.asserted
    /\ query' = NoQuery
    /\ UNCHANGED decVars

Init ==
    /\ nodes = {} /\ links = EmptyLinks /\ prefix_origins = EmptyLinks
    /\ asserted = EmptyLinks /\ call = NoCall
    /\ calls = 0 /\ query = NoQuery
    /\ payload = <<>> /\ args = <<>> /\ result = <<>> /\ pc = "idle"

AddLink ==
    \E src \in TopoRouters, dst \in TopoAddrs, metric \in TopoMetrics, protocol \in {"BGP", "OSPF"} :
        /\ calls < MaxCalls /\ calls' = calls + 1
        /\ Becomes(add_link(Topology, src, dst, metric, protocol))
        /\ call' = Called("add_link", [src |-> src, dst |-> dst, metric |-> metric,
                                       protocol |-> protocol], "", <<>>, "ok")

AddPrefixOrigin ==
    \E prefix \in {P24}, nexthop \in TopoRouters \cup {None} :
        /\ calls < MaxCalls /\ calls' = calls + 1
        /\ Becomes(add_prefix_origin(Topology, prefix, nexthop))
        /\ call' = Called("add_prefix_origin", [prefix |-> prefix, next_hop |-> nexthop],
                          "", <<>>, "ok")

ApplyBgpUpdate ==
    \E source_router \in TopoRouters, update \in BgpUpdates :
        /\ calls < MaxCalls /\ calls' = calls + 1
        /\ Becomes(apply_bgp_update(Topology, source_router, update))
        /\ call' = Called("apply_bgp_update", [source_router |-> source_router,
                                               update |-> update], "", <<>>, "ok")

ApplyOspfLsa ==
    \E lsa \in OspfLsas :
        /\ calls < MaxCalls /\ calls' = calls + 1
        /\ Becomes(apply_ospf_lsa(Topology, lsa))
        /\ call' = Called("apply_ospf_lsa", [lsa |-> lsa], "", <<>>, "ok")

IngestPacket ==
    \E p \in DecodedPackets :
        LET r == ingest_decoded(Topology, p.packet, p.decoded)
        IN  /\ calls < MaxCalls /\ calls' = calls + 1
            /\ Becomes(r.T)
            /\ call' = Called("ingest_packet", p.packet, p.packet.payload_protocol,
                              p.packet.payload, r.outcome)

Ingest ==
    \E ps \in IngestBatches :
        LET r == ingest(Topology, ps)
        IN  /\ calls < MaxCalls /\ calls' = calls + 1
            /\ Becomes(r.T)
            /\ call' = Called("ingest", [i \in 1..Len(ps) |-> ps[i].packet], "", <<>>, r.outcome)

Next ==
    \/ AddLink
    \/ AddPrefixOrigin
    \/ ApplyBgpUpdate
    \/ ApplyOspfLsa
    \/ IngestPacket
    \/ Ingest

Spec == Init /\ [][Next]_vars

(***************************************************************************)
(* shortest_path queried on topologies built from advertisements           *)
(***************************************************************************)

\* Advertisements applied before the queries in one behaviour.
MaxAdverts == 3

\* Router-LSAs of one link, for every router, neighbour and metric.
PathLsas ==
    {[advertising_router |-> r, link_state_id |-> r,
      links |-> <<[link_id |-> n, link_data |-> r, link_type |-> 1, metric |-> m]>>] :
        r \in TopoAddrs, n \in TopoAddrs, m \in {0, 2, 5}}

\* A BGP UPDATE with the next hop h and no prefix.
NextHopOnly(h) == BgpMessage(255, 0, 2, <<0, 0>> \o P16(7) \o <<64, 3, 4>> \o ParseIPv4(h))

AdvertiseOspf ==
    \E lsa \in PathLsas :
        /\ calls < MaxAdverts /\ calls' = calls + 1
        /\ Becomes(apply_ospf_lsa(Topology, lsa))
        /\ call' = NoCall

\* The updates with a next hop and no prefix, decoded.
PathUpdates == {parse_bgp_update(NextHopOnly(h)) : h \in TopoAddrs}

AdvertiseBgp ==
    \E source_router \in {A10}, update \in PathUpdates :
        /\ calls < MaxAdverts /\ calls' = calls + 1
        /\ Becomes(apply_bgp_update(Topology, source_router, update))
        /\ call' = NoCall

ShortestPath ==
    \E src \in TopoAddrs, dst \in TopoAddrs :
        /\ query' = [src |-> src, dst |-> dst, path |-> shortest_path(Topology, src, dst)]
        /\ UNCHANGED <<topoVars, calls, decVars>>

NextPath == AdvertiseOspf \/ AdvertiseBgp \/ ShortestPath

SpecPath == Init /\ [][NextPath]_vars

(***************************************************************************)
(* Claims about the topology (checked under Spec)                          *)
(***************************************************************************)

\* C1: the metric stored for a pair is the minimum of the metrics ever passed to
\* add_link for it, whatever protocol asserted them and in whatever order, and
\* its protocol set holds the protocols that asserted it: BGP at 1 followed by
\* OSPF at a larger metric leaves the metric 1 and the protocols BGP and OSPF.
C1_MetricIsMinimumAsserted ==
    /\ DOMAIN links = DOMAIN asserted
    /\ \A k \in DOMAIN links :
         /\ \E a \in asserted[k] : a[1] = links[k].metric
         /\ \A a \in asserted[k] : links[k].metric <= a[1]
         /\ links[k].protocols = {a[2] : a \in asserted[k]}

\* A pair asserted by BGP at 1 and then, by an OSPF packet, at 5.
C1_Witness ==
    /\ calls = 2 /\ call.op = "ingest_packet" /\ call.tag = "OSPF" /\ call.outcome = "ok"
    /\ <<A1, A2>> \in DOMAIN links
    /\ asserted[<<A1, A2>>] = {<<1, "BGP">>, <<5, "OSPF">>}
    /\ links[<<A1, A2>>] = [metric |-> 1, protocols |-> {"BGP", "OSPF"}]

\* What the decoder named by tag makes of data: "ok" or the class of its exception.
DecodeKind(tag, data) ==
    IF tag = "BGP" THEN parse_bgp_update(data).kind
    ELSE IF tag = "OSPF" THEN parse_ospf_lsas(data).kind
    ELSE "ok"

\* C3: ingest_packet raises exactly when the tag is BGP or OSPF and the payload
\* does not decode, and then leaves nodes, links and prefix_origins as they were;
\* with another tag it returns normally and leaves them as they were.
C3_IngestAllOrNothing ==
    [][call'.op = "ingest_packet" =>
          /\ call'.outcome = DecodeKind(call'.tag, call'.data)
          /\ (call'.outcome # "ok" \/ call'.tag \notin {"BGP", "OSPF"})
                => UNCHANGED <<nodes, links, prefix_origins>>]_vars

\* An OSPF packet whose first LSA is well formed and whose second is missing
\* was rejected, on a topology that is not empty, and the link of the first LSA
\* is not there.
C3_Witness ==
    /\ call.op = "ingest_packet" /\ call.tag = "OSPF"
    /\ call.data = OspfJoin(build_ospf_router_lsa(A1, A2, 5), <<>>, 2)
    /\ call.outcome = "OspfParserError"
    /\ nodes = {A2, A10}
    /\ <<A1, A2>> \notin DOMAIN links

(***************************************************************************)
(* Claims about shortest_path (checked under SpecPath)                     *)
(***************************************************************************)

\* More than the cost of any path without a repeated node.
Unreached == 1000

\* Least costs from src after at most k more links, by relaxation of every link.
RECURSIVE LeastCosts(_, _)
LeastCosts(D, k) ==
    IF k = 0 THEN D
    ELSE LeastCosts([n \in nodes |->
                        LET into == {l \in DOMAIN links : l[2] = n /\ D[l[1]] < Unreached}
                            via == {D[l[1]] + links[l].metric : l \in into}
                        IN  IF via = {} THEN D[n]
                            ELSE Min(D[n], CHOOSE c \in via : \A o \in via : c <= o)],
                    k - 1)

\* The least cost of a directed path from src to dst, Unreached when there is none.
LeastCost(src, dst) ==
    LeastCosts([n \in nodes |-> IF n = src THEN 0 ELSE Unreached], Cardinality(nodes))[dst]

RECURSIVE PathCost(_)
PathCost(path) ==
    IF Len(path) < 2 THEN 0
    ELSE links[<<path[1], path[2]>>].metric + PathCost(Tail(path))

\* C2: shortest_path returns None if src or dst is no node or dst cannot be
\* reached from src; otherwise a sequence of nodes from src to dst along
\* existing links whose summed metric is the least of any directed path, and
\* [src] when src = dst. Every metric is at least 1.
C2_ShortestPathIsLeastCost ==
    /\ \A k \in DOMAIN links : links[k].metric >= 1
    /\ query # NoQuery =>
        IF query.src \notin nodes \/ query.dst \notin nodes
        THEN query.path = None
        ELSE IF LeastCost(query.src, query.dst) = Unreached
        THEN query.path = None
        ELSE /\ query.path # None
             /\ query.path[1] = query.src
             /\ query.path[Len(query.path)] = query.dst
             /\ \A i \in 1..(Len(query.path) - 1) :
                    <<query.path[i], query.path[i + 1]>> \in DOMAIN links
             /\ PathCost(query.path) = LeastCost(query.src, query.dst)
             /\ query.src = query.dst => query.path = <<query.src>>

\* A path of two links was returned although a direct link exists, because the
\* direct link costs more.
C2_Witness ==
    /\ query # NoQuery /\ query.path # None
    /\ Len(query.path) = 3
    /\ <<query.src, query.dst>> \in DOMAIN links
    /\ links[<<query.src, query.dst>>].metric > PathCost(query.path)

(***************************************************************************)
(* Claims about the LSAs of an LS Update (checked under SpecOspf)          *)
(***************************************************************************)

\* The fields of the LSA header at offset off of buf, and the count of LSAs
\* that buf declares (its low 16 bits).
DeclaredLength(buf, off) == buf[off + 19] * 256 + buf[off + 20]
LsType(buf, off) == buf[off + 4]
LsaRouter(buf, off) == FormatIPv4(SubSeq(buf, off + 9, off + 12))
DeclaredCount(buf) == buf[27] * 256 + buf[28]

\* buf passes the checks of the packet header and declares fewer than 65536 LSAs.
LsUpdateHeaderOk(buf) ==
    /\ Len(buf) >= 28 /\ buf[1] = 2 /\ buf[2] = 4 /\ buf[3] * 256 + buf[4] = Len(buf)
    /\ buf[25] = 0 /\ buf[26] = 0

\* Where the m link records starting at pos end, each of 12 bytes and its
\* 4 * TOS count bytes; -1 when a record or its TOS bytes pass the end of body.
RECURSIVE LinksEnd(_, _, _)
LinksEnd(body, pos, m) ==
    IF m = 0 THEN pos
    ELSE IF Len(body) - pos < 12 THEN -1
    ELSE LET next == pos + 12 + 4 * body[pos + 10]
         IN  IF next > Len(body) THEN -1 ELSE LinksEnd(body, next, m - 1)

\* The link records that the body of a Router-LSA declares lie inside it.
LinksFit(body) ==
    Len(body) >= 4 /\ LinksEnd(body, 4, body[3] * 256 + body[4]) >= 0

\* The body of the LSA at off, by its declared length.
LsaBody(buf, off) == SubSeq(buf, off + 21, off + DeclaredLength(buf, off))

\* The k LSAs from off on are whole: each declares at least its header, lies in
\* buf, and, when a Router-LSA, holds the links it declares.
RECURSIVE WellFormedFrom(_, _, _)
WellFormedFrom(buf, off, k) ==
    IF k = 0 THEN TRUE
    ELSE /\ Len(buf) - off >= 20
         /\ DeclaredLength(buf, off) >= 20
         /\ off + DeclaredLength(buf, off) <= Len(buf)
         /\ LsType(buf, off) = 1 => LinksFit(LsaBody(buf, off))
         /\ WellFormedFrom(buf, off + DeclaredLength(buf, off), k - 1)

WellFormedLsUpdate(buf) ==
    LsUpdateHeaderOk(buf) /\ WellFormedFrom(buf, 28, DeclaredCount(buf))

\* The offsets of the k LSA headers from off on and the offset after the last,
\* by the declared lengths; the routers of those that are Router-LSAs.
RECURSIVE ExpectedOffsets(_, _, _)
ExpectedOffsets(buf, off, k) ==
    IF k = 0 THEN <<off>>
    ELSE <<off>> \o ExpectedOffsets(buf, off + DeclaredLength(buf, off), k - 1)
RECURSIVE ExpectedRouters(_, _, _)
ExpectedRouters(buf, off, k) ==
    IF k = 0 THEN <<>>
    ELSE (IF LsType(buf, off) = 1 THEN <<LsaRouter(buf, off)>> ELSE <<>>)
         \o ExpectedRouters(buf, off + DeclaredLength(buf, off), k - 1)

\* C11: an LS Update of N whole LSAs of any types, each declaring at least 20
\* bytes, decodes to the LSAs of type 1 in buffer order, at most N of them, and
\* the header of the k-th LSA is read at 28 plus the declared lengths of the
\* LSAs before it, whatever links or padding their bodies hold.
C11_RouterLsasInOrder ==
    (OspfDone /\ WellFormedLsUpdate(payload)) =>
        /\ result.kind = "ok"
        /\ result.offsets = ExpectedOffsets(payload, 28, DeclaredCount(payload))
        /\ [i \in 1..Len(result.lsas) |-> result.lsas[i].advertising_router]
              = ExpectedRouters(payload, 28, DeclaredCount(payload))
        /\ Len(result.lsas) <= DeclaredCount(payload)

\* An LS Update of three LSAs was decoded: an LSA of another type, a Router-LSA
\* that declares no link and holds padding, and a Router-LSA with one link.
C11_Witness ==
    /\ OspfDone /\ WellFormedLsUpdate(payload) /\ DeclaredCount(payload) = 3
    /\ LsType(payload, 28) = 5
    /\ Len(result.lsas) = 2
    /\ result.lsas[1].links = <<>> /\ Len(result.lsas[2].links) = 1
    /\ result.offsets = <<28, 52, 88, 124>>

\* C12: a Router-LSA whose declared link records, each of 12 bytes and the
\* 4 * TOS count bytes skipped after it, do not all lie inside its body is
\* rejected as a truncated link, the TOS bytes of the last record included,
\* so that it is materialized only if they all lie inside. Stated of the first
\* LSA of an LS Update, whose body is in the buffer.
C12_LinksAndTosInsideBody ==
    (OspfDone /\ LsUpdateHeaderOk(payload) /\ DeclaredCount(payload) >= 1
       /\ Len(payload) >= 48 /\ LsType(payload, 28) = 1
       /\ DeclaredLength(payload, 28) >= 24
       /\ 28 + DeclaredLength(payload, 28) <= Len(payload)
       /\ ~LinksFit(LsaBody(payload, 28)))
    => (result.kind = "OspfParserError" /\ result.reason = "Truncated Router-LSA link")

\* C18: the cursor of the loop over the LSAs never moves backwards and never
\* passes the end of the buffer: after k LSAs it is at least 28 + 20k, also
\* when an LSA declares less than the 20 bytes of its header.
C18_CursorAdvances ==
    OspfDone =>
        \A i \in 1..Len(result.offsets) :
            /\ result.offsets[i] >= 28 + 20 * (i - 1)
            /\ result.offsets[i] <= Len(payload)
            /\ i > 1 => result.offsets[i] >= result.offsets[i - 1]

(***************************************************************************)
(* Claims about what a call adds to the topology (checked under Spec)      *)
(***************************************************************************)

\* The value of the first NEXT_HOP attribute of a decoded update, None without one.
FirstNextHop(update) ==
    LET found == {i \in 1..Len(update.path_attributes) : update.path_attributes[i].type_code = 3}
    IN  IF found = {} THEN None
        ELSE update.path_attributes[CHOOSE i \in found : \A j \in found : i <= j].value

\* What a call asserts: the addresses it names as link endpoints, advertising
\* router or source router, and the prefixes it advertises with their next hop.
LinkEffect(src, dst) == [named |-> {src, dst}, prefixes |-> {}, next_hop |-> None]
OriginEffect(prefix, nh) == [named |-> {}, prefixes |-> {prefix}, next_hop |-> nh]
UpdateEffect(source_router, update) ==
    LET nh == FirstNextHop(update)
    IN  [named |-> {source_router} \cup (IF nh = None THEN {} ELSE {nh}),
         prefixes |-> {update.nlri[i] : i \in 1..Len(update.nlri)},
         next_hop |-> nh]
LsaEffect(lsa) ==
    [named |-> {lsa.advertising_router} \cup {lsa.links[i].link_id : i \in 1..Len(lsa.links)},
     prefixes |-> {}, next_hop |-> None]

\* The effects of a packet that decodes.
PacketEffects(packet) ==
    IF packet.payload_protocol = "BGP"
    THEN <<UpdateEffect(packet.src_ip, parse_bgp_update(packet.payload))>>
    ELSE IF packet.payload_protocol = "OSPF"
    THEN LET lsas == parse_ospf_lsas(packet.payload).lsas
         IN  [i \in 1..Len(lsas) |-> LsaEffect(lsas[i])]
    ELSE <<>>

\* The effects of a list of packets: those of the packets before the first that
\* does not decode.
RECURSIVE BatchEffects(_)
BatchEffects(packets) ==
    IF Len(packets) = 0 THEN <<>>
    ELSE IF DecodeKind(Head(packets).payload_protocol, Head(packets).payload) # "ok" THEN <<>>
    ELSE PacketEffects(Head(packets)) \o BatchEffects(Tail(packets))

\* The effects of a call, in the order they are made.
Effects(c) ==
    CASE c.op = "add_link" -> <<LinkEffect(c.args.src, c.args.dst)>>
      [] c.op = "add_prefix_origin" -> <<OriginEffect(c.args.prefix, c.args.next_hop)>>
      [] c.op = "apply_bgp_update" -> <<UpdateEffect(c.args.source_router, c.args.update)>>
      [] c.op = "apply_ospf_lsa" -> <<LsaEffect(c.args.lsa)>>
      [] c.op = "ingest_packet" -> BatchEffects(<<c.args>>)
      [] c.op = "ingest" -> BatchEffects(c.args)
      [] OTHER -> <<>>

\* C13: the node set is empty at first and every call adds to it exactly the
\* addresses it names as source or destination of a link, as advertising router
\* of an applied LSA or as source router of an applied BGP update; every
\* endpoint of a stored link is a node.
C13_NodesAreExactlyThoseNamed ==
    /\ nodes = {}
    /\ [][LET effects == Effects(call')
          IN  /\ nodes' = nodes \cup UNION {effects[i].named : i \in 1..Len(effects)}
              /\ \A k \in DOMAIN links' : k[1] \in nodes' /\ k[2] \in nodes']_vars

\* An LSA without links was applied to the empty topology: its advertising
\* router is the only node.
C13_Witness ==
    /\ call.op = "apply_ospf_lsa" /\ call.args.lsa.links = <<>>
    /\ nodes = {call.args.lsa.advertising_router}
    /\ links = EmptyLinks

\* C14: no step removes anything: the node set, the set of link keys, the
\* protocol set of every link and the set of prefixes with a recorded origin
\* after a step contain those before it, also when the step fails to decode a
\* packet or applies an update that withdraws prefixes.
C14_AppendAndMergeOnly ==
    [][/\ nodes \subseteq nodes'
       /\ DOMAIN links \subseteq DOMAIN links'
       /\ \A k \in DOMAIN links : links[k].protocols \subseteq links'[k].protocols
       /\ DOMAIN prefix_origins \subseteq DOMAIN prefix_origins']_vars

\* An update that withdraws 10.0.0.0/8 was ingested after the origin of
\* 10.0.0.0/8 was recorded, and the origin is still there.
C14_Witness ==
    /\ calls = 2 /\ call.op = "ingest_packet" /\ call.outcome = "ok"
    /\ call.data = BgpMessage(255, 0, 2, <<0, 2, 8, 10, 0, 0, 8, 10>>)
    /\ P8 \in DOMAIN prefix_origins

\* The origin of prefix after the effects, old being the one before: the next
\* hop of the last effect that advertises prefix with a next hop.
RECURSIVE OriginAfter(_, _, _)
OriginAfter(old, effects, prefix) ==
    IF Len(effects) = 0 THEN old
    ELSE LET e == Head(effects)
         IN  OriginAfter(IF prefix \in e.prefixes /\ e.next_hop # None THEN e.next_hop ELSE old,
                         Tail(effects), prefix)

\* C16: describe_prefix(P) is None before any call, and after a call it is the
\* next hop of the last update the call applied that advertised P and carried a
\* next hop, the value of its first NEXT_HOP attribute; it is what it was
\* before the call when there is none.
C16_PrefixOriginIsLatestNextHop ==
    /\ \A P \in {P24, P8} : describe_prefix(Topology, P) = None
    /\ [][LET effects == Effects(call')
          IN  \A P \in {P24, P8} \cup DOMAIN prefix_origins' :
                  describe_prefix(Topology', P)
                     = OriginAfter(describe_prefix(Topology, P), effects, P)]_vars

\* The update with two NEXT_HOP attributes was ingested after another call had
\* recorded the origin of P24 as A10: the origin of P24 is now the first of the two.
C16_Witness ==
    /\ calls = 2 /\ call.op = "ingest_packet" /\ call.data = TwoNextHops
    /\ <<call.args.src_ip, A10>> \in DOMAIN links
    /\ prefix_origins[P24] = A2

(***************************************************************************)
(* shortest_path run one iteration at a time, on a link map that keeps     *)
(* its insertion order                                                     *)
(***************************************************************************)

\* heapq.heappush. The heap is modelled as the list of its entries in the order
\* they were pushed; heappop takes the least of them out.
heappush(heap, item) == Append(heap, item)

\* The position of the least entry of a heap that is not empty; of entries
\* that compare equal, the one pushed first.
least_index(heap) ==
    LET least == {i \in 1..Len(heap) : \A j \in 1..Len(heap) : ~EntryLess(heap[j], heap[i])}
    IN  CHOOSE i \in least : \A j \in least : i <= j

\* heapq.heappop: the entry returned.
heappop_item(heap) == heap[least_index(heap)]

\* Mutant of heappop_rest: the entry returned stays in the heap.
heappop_rest_Kept(heap) == heap

\* heapq.heappop: the heap left.
heappop_rest(heap) ==
    LET i == least_index(heap)
    IN  SubSeq(heap, 1, i - 1) \o SubSeq(heap, i + 1, Len(heap))

\* shortest_path, the for loop over _neighbours_with_metadata(node): the links
\* are visited in the order of the dict, those that leave the node of entry e
\* relax their destination.
RECURSIVE push_neighbours(_, _, _, _, _)
push_neighbours(T, order, e, heap, visited) ==
    IF Len(order) = 0 THEN [queue |-> heap, visited |-> visited]
    ELSE LET k == Head(order)
             new_cost == e.cost + T.links[k].metric
         IN  IF k[1] = e.node /\ improves(visited, k[2], new_cost)
             THEN push_neighbours(T, Tail(order), e,
                                  heappush(heap, [cost |-> new_cost, node |-> k[2],
                                                  path |-> Append(e.path, k[2])]),
                                  Put(visited, k[2], new_cost))
             ELSE push_neighbours(T, Tail(order), e, heap, visited)

\* shortest_path up to its loop: the arguments and the locals of the call, order
\* being the order in which the dict of links is iterated. popped is the list of
\* the entry extracted last, empty before the first; path is the value returned,
\* the empty list standing for None (a path returned has at least one node).
search_begin(T, order, src, dst) ==
    IF src \notin T.nodes \/ dst \notin T.nodes
    THEN [src |-> src, dst |-> dst, order |-> order, queue |-> <<>>, visited |-> EmptyLinks,
          popped |-> <<>>, path |-> <<>>, running |-> FALSE]
    ELSE [src |-> src, dst |-> dst, order |-> order,
          queue |-> <<[cost |-> 0, node |-> src, path |-> <<src>>]>>,
          visited |-> [n \in {src} |-> 0],
          popped |-> <<>>, path |-> <<>>, running |-> TRUE]

\* shortest_path, one iteration of the while loop, or the return after it.
search_step(T, q) ==
    IF Len(q.queue) = 0 THEN [q EXCEPT !.running = FALSE, !.path = <<>>]
    ELSE LET e == heappop_item(q.queue)
             rest == heappop_rest(q.queue)
         IN  IF e.node = q.dst
             THEN [q EXCEPT !.popped = <<e>>, !.queue = rest, !.running = FALSE, !.path = e.path]
             ELSE LET r == push_neighbours(T, q.order, e, rest, q.visited)
                  IN  [q EXCEPT !.popped = <<e>>, !.queue = r.queue, !.visited = r.visited]

\* shortest_path run to its return from the locals q.
RECURSIVE search_run(_, _)
search_run(T, q) == IF ~q.running THEN q.path ELSE search_run(T, search_step(T, q))

\* Links in one topology.
MaxLinks == 4

A3 == <<"1", "0", ".", "0", ".", "0", ".", "3">>
SearchNodes == {A1, A2, A10, A3}
\* The pairs that may be linked: two ways from A1 to A3, a link back and a
\* self-loop.
SearchPairs == {<<A1, A2>>, <<A1, A10>>, <<A2, A3>>, <<A10, A3>>, <<A2, A1>>, <<A2, A2>>}

\* Router-LSAs with one link, of metric 0 (which is stored as 1) or, for the
\* link from A10 to A3, 2.
SearchLsas ==
    {[advertising_router |-> k[1], link_state_id |-> k[1],
      links |-> <<[link_id |-> k[2], link_data |-> k[1], link_type |-> 1, metric |-> m]>>] :
        k \in SearchPairs, m \in {0}}
    \cup {[advertising_router |-> k[1], link_state_id |-> k[1],
           links |-> <<[link_id |-> k[2], link_data |-> k[1], link_type |-> 1, metric |-> 2]>>] :
             k \in {<<A10, A3>>}}

\* The orders in which a dict with the keys S may iterate: any order of insertion.
RECURSIVE LinkOrders(_)
LinkOrders(S) ==
    IF S = {} THEN {<<>>}
    ELSE UNION {{<<k>> \o o : o \in LinkOrders(S \ {k})} : k \in S}

\* An LSA is applied for a pair not yet linked.
LinkUp ==
    \E lsa \in SearchLsas :
        /\ pc = "idle"
        /\ calls < MaxLinks /\ calls' = calls + 1
        /\ <<lsa.advertising_router, lsa.links[1].link_id>> \notin DOMAIN links
        /\ nodes' = apply_ospf_lsa(Topology, lsa).nodes
        /\ links' = apply_ospf_lsa(Topology, lsa).links
        /\ asserted' = apply_ospf_lsa(Topology, lsa).asserted
        /\ call' = NoCall
        /\ UNCHANGED <<prefix_origins, query, decVars>>

\* shortest_path(src, dst) is called on a topology whose links were inserted in
\* some order.
SearchBegin ==
    \E src \in {A1, A2}, dst \in SearchNodes, order \in LinkOrders(DOMAIN links) :
        /\ pc = "idle"
        /\ query' = search_begin(Topology, order, src, dst)
        /\ pc' = IF query'.running THEN "search" ELSE "returned"
        /\ UNCHANGED <<topoVars, calls, payload, args, result>>

SearchStep ==
    /\ pc = "search"
    /\ query' = search_step(Topology, query)
    /\ pc' = IF query'.running THEN "search" ELSE "returned"
    /\ UNCHANGED <<topoVars, calls, payload, args, result>>

NextSearch == LinkUp \/ SearchBegin \/ SearchStep

SpecSearch == Init /\ [][NextSearch]_vars

\* The loop of shortest_path has no await: a call that was begun keeps running.
SpecSearchFair == SpecSearch /\ WF_vars(SearchStep)

\* One order of the keys S, the same for every dict with these keys.
RECURSIVE ReferenceOrder(_)
ReferenceOrder(S) ==
    IF S = {} THEN <<>>
    ELSE LET k == CHOOSE x \in S : TRUE IN <<k>> \o ReferenceOrder(S \ {k})

\* C15: the path shortest_path returns does not depend on the order in which
\* the links were inserted: under every order it is the path returned under one
\* reference order of the same links, so that any two orders give the same
\* path, also when several paths cost the least; and the entry extracted from
\* the frontier has the least cost and, among those of that cost, the least node
\* identifier in the order of strings.
C15_PathIndependentOfInsertionOrder ==
    [][/\ pc' = "returned" =>
            search_run(Topology, search_begin(Topology, ReferenceOrder(DOMAIN links),
                                              query'.src, query'.dst))
                = query'.path
       /\ (pc = "search" /\ Len(query.queue) > 0) =>
            \A i \in 1..Len(query.queue) :
                \/ query'.popped[1].cost < query.queue[i].cost
                \/ /\ query'.popped[1].cost = query.queue[i].cost
                   /\ ~StrLess(query.queue[i].node, query'.popped[1].node)]_vars

\* Two paths from A1 to A3 cost 2, through A2 and through A10; the link to A2
\* was inserted before the link to A10, and the path through A10 was returned.
C15_Witness ==
    /\ pc = "returned" /\ query.src = A1 /\ query.dst = A3
    /\ query.order = <<<<A1, A2>>, <<A2, A3>>, <<A1, A10>>, <<A10, A3>>>>
    /\ \A k \in DOMAIN links : links[k].metric = 1
    /\ query.path = <<A1, A10, A3>>

\* C17: every call of shortest_path returns, whatever the topology (cycles,
\* self-loops, a destination that cannot be reached) and the arguments.
C17_ShortestPathTerminates == (pc = "search") ~> (pc = "returned")

\* A call returned None after the frontier of a topology with a cycle and a
\* self-loop was exhausted: the destination is a node that cannot be reached.
C17_Witness ==
    /\ pc = "returned" /\ query.path = <<>> /\ Len(query.popped) = 1
    /\ Len(query.queue) = 0
    /\ {<<A1, A2>>, <<A2, A1>>, <<A2, A2>>, <<A10, A3>>} = DOMAIN links
    /\ query.dst = A10 /\ A10 \in nodes

====
